---------------------------- MODULE Spec2Model ----------------------------
(* A model of src/app.py: the TestRail client (get_tests pagination), the  *)
(* memoised fetch_plan_data, the status / custom-field resolvers, the row  *)
(* builder build_dataframe and the load boundary of main.                  *)
(*                                                                         *)
(* Python strings that the code takes apart (strip, lower, split, join,    *)
(* int, str) are sequences of one-character strings; labels that are only  *)
(* compared or looked up (status labels, run names, dict keys) are TLA+    *)
(* strings.                                                                *)
EXTENDS Integers, Sequences, FiniteSets, TLC

VARIABLES
    configured,  \* all([TESTRAIL_URL, TESTRAIL_USER, TESTRAIL_API_KEY])
    now,         \* the clock st.cache_data reads, in seconds
    epoch,       \* version of the data the TestRail server holds
    cache,       \* the store of @st.cache_data: plan id -> entry
    pc,          \* where main / fetch_plan_data / get_tests stands
    plan_id,     \* BU_PLANS[bu_name]["plan_id"] of the running load
    loc,         \* locals of fetch_plan_data
    gt,          \* locals of get_tests
    reqlog,      \* history: the requests of the running load, in order
    resplog,     \* history: how each of them ended, "ok" or "error"
    pagelog,     \* history: the responses to the running get_tests call
    fetchlog,    \* history: what each get_tests call of the load returned
    lastFetch,   \* history: per plan id, the last successful fetch
    result,      \* what fetch_plan_data handed to main
    ui,          \* what main rendered for the load
    df,          \* the row table build_dataframe returned
    arg,         \* input of the function under check (function harnesses)
    ret          \* its output

mainvars == <<configured, now, epoch, cache, pc, plan_id, loc, gt, reqlog,
              resplog, pagelog, fetchlog, lastFetch, result, ui, df>>
vars == <<configured, now, epoch, cache, pc, plan_id, loc, gt, reqlog,
          resplog, pagelog, fetchlog, lastFetch, result, ui, df, arg, ret>>

---------------------------------------------------------------------------
(* Python's str methods, on sequences of characters.                       *)

Whitespace == {" ", "\t", "\n", "\r"}

UpperLetters == <<"A","B","C","D","E","F","G","H","I","J","K","L","M",
                  "N","O","P","Q","R","S","T","U","V","W","X","Y","Z">>
LowerLetters == <<"a","b","c","d","e","f","g","h","i","j","k","l","m",
                  "n","o","p","q","r","s","t","u","v","w","x","y","z">>

LowerChar(c) ==
    IF \E i \in 1..Len(UpperLetters) : UpperLetters[i] = c
    THEN LowerLetters[CHOOSE i \in 1..Len(UpperLetters) : UpperLetters[i] = c]
    ELSE c

\* str.lower()
StrLower(s) == [i \in 1..Len(s) |-> LowerChar(s[i])]

RECURSIVE LStrip(_)
LStrip(s) ==
    IF s # <<>> /\ Head(s) \in Whitespace THEN LStrip(Tail(s)) ELSE s

RECURSIVE RStrip(_)
RStrip(s) ==
    IF s # <<>> /\ s[Len(s)] \in Whitespace
    THEN RStrip(SubSeq(s, 1, Len(s) - 1)) ELSE s

\* str.strip()
StrStrip(s) == RStrip(LStrip(s))

\* str.replace(a, b) for single characters
StrReplace(s, a, b) == [i \in 1..Len(s) |-> IF s[i] = a THEN b ELSE s[i]]

\* c in s
StrContains(s, c) == \E i \in 1..Len(s) : s[i] = c

\* index of the first c in s (s contains c)
StrFind(s, c) == CHOOSE i \in 1..Len(s) : s[i] = c /\ \A j \in 1..(i-1) : s[j] # c

\* str.split(c): every separator cuts, empty pieces are kept
RECURSIVE StrSplit(_, _)
StrSplit(s, c) ==
    IF ~StrContains(s, c) THEN <<s>>
    ELSE <<SubSeq(s, 1, StrFind(s, c) - 1)>>
         \o StrSplit(SubSeq(s, StrFind(s, c) + 1, Len(s)), c)

\* sep.join(parts)
RECURSIVE StrJoin(_, _)
StrJoin(parts, sep) ==
    IF parts = <<>> THEN <<>>
    ELSE IF Len(parts) = 1 THEN parts[1]
    ELSE parts[1] \o sep \o StrJoin(Tail(parts), sep)

Digits == <<"0","1","2","3","4","5","6","7","8","9">>

RECURSIVE NatToStr(_)
NatToStr(n) ==
    IF n < 10 THEN <<Digits[n + 1]>>
    ELSE NatToStr(n \div 10) \o <<Digits[(n % 10) + 1]>>

\* str(n) for an int
IntToStr(n) == IF n < 0 THEN <<"-">> \o NatToStr(-n) ELSE NatToStr(n)

IsDigit(c) == \E i \in 1..Len(Digits) : Digits[i] = c
DigitVal(c) == (CHOOSE i \in 1..Len(Digits) : Digits[i] = c) - 1

RECURSIVE DigitsVal(_)
DigitsVal(s) ==
    IF s = <<>> THEN 0
    ELSE 10 * DigitsVal(SubSeq(s, 1, Len(s) - 1)) + DigitVal(s[Len(s)])

\* int(s): surrounding whitespace and one sign are accepted, then digits;
\* anything else raises ValueError (ok = FALSE).
ParseInt(s) ==
    LET t == StrStrip(s)
        signed == t # <<>> /\ Head(t) \in {"+", "-"}
        body == IF signed THEN Tail(t) ELSE t
        good == body # <<>> /\ \A i \in 1..Len(body) : IsDigit(body[i])
    IN IF good
       THEN [ok |-> TRUE,
             val |-> IF signed /\ Head(t) = "-"
                     THEN 0 - DigitsVal(body) ELSE DigitsVal(body)]
       ELSE [ok |-> FALSE, val |-> 0]

---------------------------------------------------------------------------
(* Configuration and values.                                               *)

FIELD_REVIEW_NOTES == "custom_review_note"
FIELD_NA_REASON == "custom_automation_not_applicable_reason"
FIELD_COUNTRIES == "custom_multi_countries"
FIELD_DEVICE == "custom_device"
FIELD_TESTIM_DESKTOP == "custom_automation_status_testim_desktop"
FIELD_TESTIM_MOBILE == "custom_automation_status_testim_mobile_view"

\* A raw custom-field value as JSON delivers it: None (or the key missing),
\* an int, a list of ints, or a str.
RNone == [tag |-> "none", n |-> 0, l |-> <<>>, s |-> <<>>]
RInt(n) == [tag |-> "int", n |-> n, l |-> <<>>, s |-> <<>>]
RList(l) == [tag |-> "list", n |-> 0, l |-> l, s |-> <<>>]
RStr(s) == [tag |-> "str", n |-> 0, l |-> <<>>, s |-> s]

\* An optional dict: dict.get(key) without a default gives None.
NoDict == [some |-> FALSE, m |-> <<>>]
SomeDict(m) == [some |-> TRUE, m |-> m]

\* d.get(k) for a dict of raw values / of option maps
RawGet(d, k) == IF k \in DOMAIN d THEN d[k] ELSE RNone
MapsGet(d, k) == IF k \in DOMAIN d THEN SomeDict(d[k]) ELSE NoDict

\* bool(d) of an optional dict: None and {} are falsy
DictTruthy(d) == d.some /\ DOMAIN d.m # {}

\* bool(v) of a raw value that is no list: None, 0 and "" are falsy
RawTruthy(v) ==
    CASE v.tag = "none" -> FALSE
      [] v.tag = "int"  -> v.n # 0
      [] v.tag = "list" -> v.l # <<>>
      [] v.tag = "str"  -> v.s # <<>>

\* str(v) of an int or a str
RawStr(v) == IF v.tag = "int" THEN IntToStr(v.n) ELSE v.s

---------------------------------------------------------------------------
(* Status helpers.                                                         *)

STATUS_GROUP_MAP ==
    [l \in {"Passed", "Passed with Issue", "Passed with Stub", "To Do",
            "To-do", "Blocked", "Failed (Medium)", "Not Applicable",
            "Failed", "Retest", "Untested"} |->
        CASE l = "To-do"  -> "To Do"
          [] l = "Retest" -> "To Do"
          [] OTHER        -> l]

resolve_status_unknown(status_label) ==
    IF status_label \in DOMAIN STATUS_GROUP_MAP
    THEN STATUS_GROUP_MAP[status_label] ELSE "Unknown"

resolve_status(status_label) ==
    IF status_label \in DOMAIN STATUS_GROUP_MAP
    THEN STATUS_GROUP_MAP[status_label] ELSE status_label

\* dropdown_map.get(v, str(v))
OptLabel(dropdown_map, v) ==
    IF v \in DOMAIN dropdown_map.m THEN dropdown_map.m[v] ELSE IntToStr(v)

resolve_custom_field(raw_value, dropdown_map) ==
    IF raw_value.tag = "none" THEN <<>>
    ELSE IF DictTruthy(dropdown_map) /\ raw_value.tag = "list"
    THEN StrJoin([i \in 1..Len(raw_value.l) |->
                     OptLabel(dropdown_map, raw_value.l[i])], <<",", " ">>)
    ELSE IF DictTruthy(dropdown_map) /\ raw_value.tag = "int"
    THEN OptLabel(dropdown_map, raw_value.n)
    ELSE IF raw_value.tag = "list"
    THEN StrJoin([i \in 1..Len(raw_value.l) |-> IntToStr(raw_value.l[i])],
                 <<",", " ">>)
    ELSE IF RawTruthy(raw_value) THEN RawStr(raw_value) ELSE <<>>


---------------------------------------------------------------------------
(* build_dataframe.                                                        *)

\* A test as get_tests delivers it. custom holds the custom_* keys present
\* in the JSON object; run_name / run_id are "_run_name" / "_run_id", ""
\* and 0 until fetch_plan_data sets them.
MkTest(case_id, status_id, custom) ==
    [case_id |-> case_id, status_id |-> status_id, custom |-> custom,
     run_name |-> "", run_id |-> 0]

\* status_map.get(t.get("status_id"), "Unknown")
StatusLabel(status_map, status_id) ==
    IF status_id \in DOMAIN status_map THEN status_map[status_id] ELSE "Unknown"

\* [c.strip() for c in pieces if c.strip()]
RECURSIVE StripNonEmpty(_)
StripNonEmpty(pieces) ==
    IF pieces = <<>> THEN <<>>
    ELSE IF StrStrip(Head(pieces)) # <<>>
    THEN <<StrStrip(Head(pieces))>> \o StripNonEmpty(Tail(pieces))
    ELSE StripNonEmpty(Tail(pieces))

ParseCountries_nostrip(countries_raw) ==
    StrSplit(StrReplace(countries_raw, ",", "\n"), "\n")

\* countries_raw.replace(",", "\n").split("\n"), stripped, empty ones dropped
ParseCountries(countries_raw) ==
    StripNonEmpty(StrSplit(StrReplace(countries_raw, ",", "\n"), "\n"))

\* x in countries
InList(x, list) == \E i \in 1..Len(list) : list[i] = x

na_variants ==
    {<<"n","o","t"," ","a","p","p","l","i","c","a","b","l","e">>,
     <<"a","u","t","o","m","a","t","i","o","n"," ",
       "n","o","t"," ","a","p","p","l","i","c","a","b","l","e">>,
     <<"n","/","a">>}

\* testim_x.strip().lower() in na_variants
IsNa(testim) == StrLower(StrStrip(testim)) \in na_variants

DESKTOP == <<"D","e","s","k","t","o","p">>
MOBILE == <<"M","o","b","i","l","e">>
BOTH == <<"B","o","t","h">>

EffectiveStatus_either(device, desktop_na, mobile_na, status) ==
    IF device = DESKTOP /\ desktop_na THEN "Not Applicable"
    ELSE IF device = MOBILE /\ mobile_na THEN "Not Applicable"
    ELSE IF device = BOTH /\ (desktop_na \/ mobile_na) THEN "Not Applicable"
    ELSE status

EffectiveStatus_swapped(device, desktop_na, mobile_na, status) ==
    IF device = DESKTOP /\ mobile_na THEN "Not Applicable"
    ELSE IF device = MOBILE /\ desktop_na THEN "Not Applicable"
    ELSE IF device = BOTH /\ desktop_na /\ mobile_na THEN "Not Applicable"
    ELSE status

\* the if / elif chain that sets effective_status
EffectiveStatus(device, desktop_na, mobile_na, status) ==
    IF device = DESKTOP /\ desktop_na THEN "Not Applicable"
    ELSE IF device = MOBILE /\ mobile_na THEN "Not Applicable"
    ELSE IF device = BOTH /\ desktop_na /\ mobile_na THEN "Not Applicable"
    ELSE status

\* resolve_custom_field(...) or "Both"
DeviceOf(t, dropdown_maps) ==
    LET d == resolve_custom_field(RawGet(t.custom, FIELD_DEVICE),
                                  MapsGet(dropdown_maps, FIELD_DEVICE))
    IN IF d # <<>> THEN d ELSE BOTH

\* One pass of the loop body of build_dataframe: the row of test t. The
\* columns Title, Priority, Type, Countries, Review Notes and Link are
\* copies or lookups nothing downstream of the model reads; they are left
\* out.
BuildRow(t, status_map, dropdown_maps) ==
    LET status_label == StatusLabel(status_map, t.status_id)
        status == resolve_status(status_label)
        na_reason ==
            resolve_custom_field(RawGet(t.custom, FIELD_NA_REASON),
                                 MapsGet(dropdown_maps, FIELD_NA_REASON))
        countries_raw ==
            resolve_custom_field(RawGet(t.custom, FIELD_COUNTRIES),
                                 MapsGet(dropdown_maps, FIELD_COUNTRIES))
        device == DeviceOf(t, dropdown_maps)
        testim_desktop ==
            resolve_custom_field(RawGet(t.custom, FIELD_TESTIM_DESKTOP),
                                 MapsGet(dropdown_maps, FIELD_TESTIM_DESKTOP))
        testim_mobile ==
            resolve_custom_field(RawGet(t.custom, FIELD_TESTIM_MOBILE),
                                 MapsGet(dropdown_maps, FIELD_TESTIM_MOBILE))
        countries == ParseCountries(countries_raw)
        has_lt == InList(<<"L","T">>, countries)
        has_lv == InList(<<"L","V">>, countries)
        has_both == has_lt /\ has_lv
        desktop_na == IsNa(testim_desktop)
        mobile_na == IsNa(testim_mobile)
        effective_status ==
            EffectiveStatus(device, desktop_na, mobile_na, status)
    IN [Case_ID |-> t.case_id,
        Status_Raw |-> status_label,
        Status |-> effective_status,
        Run |-> t.run_name,
        Device |-> device,
        LT |-> has_lt,
        LV |-> has_lv,
        Both_Countries |-> has_both,
        NA_Reason |-> na_reason,
        Testim_Desktop |-> testim_desktop,
        Testim_Mobile |-> testim_mobile]

\* rows, in the order of all_tests
build_dataframe(all_tests, status_map, dropdown_maps) ==
    [i \in 1..Len(all_tests) |-> BuildRow(all_tests[i], status_map, dropdown_maps)]

---------------------------------------------------------------------------
(* fetch_plan_data: the option maps of the dropdown fields.                *)

\* A case field of get_case_fields: its system name, its type id and, per
\* config, the items string (cfg.get("options", {}).get("items", "")).
MkField(system_name, type_id, configs) ==
    [system_name |-> system_name, type_id |-> type_id, configs |-> configs]

\* The loop over items_str.split("\n"): acc.m is opt_map so far, acc.raised
\* says int() raised ValueError, which ends the loop and the function.
RECURSIVE OptMapOfLines(_, _)
OptMapOfLines(lines, acc) ==
    IF lines = <<>> \/ acc.raised THEN acc
    ELSE LET line == StrStrip(Head(lines))
         IN IF StrContains(line, ",")
            THEN LET k == StrFind(line, ",")
                     val == SubSeq(line, 1, k - 1)
                     label == SubSeq(line, k + 1, Len(line))
                     id == ParseInt(StrStrip(val))
                 IN IF id.ok
                    THEN OptMapOfLines(Tail(lines),
                            [raised |-> FALSE,
                             m |-> (id.val :> StrStrip(label)) @@ acc.m])
                    ELSE [raised |-> TRUE, m |-> acc.m]
            ELSE OptMapOfLines(Tail(lines), acc)

BuildOptMap(items_str) ==
    OptMapOfLines(StrSplit(items_str, "\n"), [raised |-> FALSE, m |-> <<>>])

\* for cfg in field.get("configs", []): a non-empty items string replaces
\* dropdown_maps[sys_name]
RECURSIVE DropdownMapsOfConfigs(_, _, _)
DropdownMapsOfConfigs(sys_name, configs, acc) ==
    IF configs = <<>> \/ acc.raised THEN acc
    ELSE IF Head(configs) = <<>>
    THEN DropdownMapsOfConfigs(sys_name, Tail(configs), acc)
    ELSE LET opt == BuildOptMap(Head(configs))
         IN IF opt.raised THEN [raised |-> TRUE, maps |-> acc.maps]
            ELSE DropdownMapsOfConfigs(sys_name, Tail(configs),
                    [raised |-> FALSE,
                     maps |-> (sys_name :> opt.m) @@ acc.maps])

\* for field in case_fields: only type ids 6 (dropdown) and 12 (multi-select)
RECURSIVE DropdownMapsOfFields(_, _)
DropdownMapsOfFields(case_fields, acc) ==
    IF case_fields = <<>> \/ acc.raised THEN acc
    ELSE LET field == Head(case_fields)
             sys_name == "custom_" \o field.system_name
         IN IF field.type_id \in {6, 12}
            THEN DropdownMapsOfFields(Tail(case_fields),
                    DropdownMapsOfConfigs(sys_name, field.configs, acc))
            ELSE DropdownMapsOfFields(Tail(case_fields), acc)

BuildDropdownMaps(case_fields) ==
    DropdownMapsOfFields(case_fields, [raised |-> FALSE, maps |-> <<>>])

---------------------------------------------------------------------------
(* What the TestRail server holds: the reference tables.                   *)

\* get_statuses: TestRail's five system statuses and this instance's
\* custom ones; "In Review" is a label STATUS_GROUP_MAP does not know.
ServerStatuses ==
    <<[id |-> 1, label |-> "Passed"], [id |-> 2, label |-> "Blocked"],
      [id |-> 3, label |-> "Untested"], [id |-> 4, label |-> "Retest"],
      [id |-> 5, label |-> "Failed"], [id |-> 6, label |-> "To-do"],
      [id |-> 7, label |-> "Not Applicable"],
      [id |-> 8, label |-> "Passed with Issue"],
      [id |-> 9, label |-> "In Review"]>>

\* {s["id"]: s["label"] for s in statuses_raw}: the last entry of an id wins
StatusMapOf(statuses_raw) ==
    [i \in {statuses_raw[k].id : k \in 1..Len(statuses_raw)} |->
        statuses_raw[CHOOSE k \in 1..Len(statuses_raw) :
            /\ statuses_raw[k].id = i
            /\ \A j \in (k+1)..Len(statuses_raw) : statuses_raw[j].id # i].label]

\* get_case_fields: device and the two Testim statuses are dropdowns,
\* countries is a multi-select, the not-applicable reason is a text field.
TestimItems ==
    <<"1",","," ","A","u","t","o","m","a","t","e","d","\n",
      "2",","," ","N","o","t"," ","A","p","p","l","i","c","a","b","l","e","\n",
      "3",","," ","I","n"," ","P","r","o","g","r","e","s","s">>

ServerCaseFields ==
    <<MkField("device", 6,
        <<<<"1",","," ","D","e","s","k","t","o","p","\n",
            "2",","," ","M","o","b","i","l","e","\n",
            "3",","," ","B","o","t","h">>>>),
      MkField("automation_status_testim_desktop", 6, <<TestimItems>>),
      MkField("automation_status_testim_mobile_view", 6, <<TestimItems>>),
      MkField("multi_countries", 12,
        <<<<"1",","," ","L","T","\n","2",","," ","L","V","\n",
            "3",","," ","E","E">>>>),
      MkField("automation_not_applicable_reason", 3, <<>>)>>

ServerDropdownMaps == BuildDropdownMaps(ServerCaseFields).maps

---------------------------------------------------------------------------
(* The state main starts from.                                             *)

BU_PLANS ==
    ("Watsons Turkey" :> [plan_id |-> 61979]
     @@ "Drogas" :> [plan_id |-> 62842])

PlanIds == {BU_PLANS[bu].plan_id : bu \in DOMAIN BU_PLANS}

\* an entry of the store of st.cache_data: the value and when it was stored
MkEntry(stored, value) == [some |-> TRUE, stored |-> stored, value |-> value]

NoEntry == [some |-> FALSE, stored |-> 0, value |-> <<>>]
NoLoc == <<>>
NoGt == <<>>

MainIdle ==
    /\ now = 0
    /\ epoch = 0
    /\ cache = [p \in PlanIds |-> NoEntry]
    /\ pc = "idle"
    /\ plan_id = 0
    /\ loc = NoLoc
    /\ gt = NoGt
    /\ reqlog = <<>>
    /\ resplog = <<>>
    /\ pagelog = <<>>
    /\ fetchlog = <<>>
    /\ lastFetch = [p \in PlanIds |-> NoEntry]
    /\ result = <<>>
    /\ ui = <<>>
    /\ df = <<>>

---------------------------------------------------------------------------
(* TestRailClient: requests and get_tests.                                 *)

PageLimit == 250

\* One call of _get: the endpoint, the id in its path and the query
\* parameters (0 where the endpoint takes none).
MkRequest(endpoint, id, limit, offset) ==
    [endpoint |-> endpoint, id |-> id, limit |-> limit, offset |-> offset]

\* What resp.json() gives get_tests: a dict with "tests" (kind "envelope",
\* links telling whether "_links" is absent, holds "next": null or holds a
\* next link), a bare list, or something else.
MkData(kind, tests, links) == [kind |-> kind, tests |-> tests, links |-> links]

\* tests, offset, limit = [], 0, 250
GetTestsStart(run_id) ==
    [run_id |-> run_id, tests |-> <<>>, offset |-> 0, limit |-> PageLimit]

\* self._get(f"get_tests/{run_id}", {"limit": limit, "offset": offset})
GetTestsRequest(g) == MkRequest("get_tests", g.run_id, g.limit, g.offset)

GetTestsStep_replace(g, data) ==
    IF data.kind = "envelope"
    THEN IF data.links # "next"
         THEN [g |-> [g EXCEPT !.tests = data.tests], done |-> TRUE]
         ELSE [g |-> [g EXCEPT !.tests = data.tests,
                               !.offset = g.offset + g.limit],
               done |-> FALSE]
    ELSE IF data.kind = "list"
    THEN [g |-> [g EXCEPT !.tests = data.tests], done |-> TRUE]
    ELSE [g |-> g, done |-> TRUE]

\* One pass of the while loop on the decoded response: the locals after it
\* and whether the loop was left (done: the function returns g.tests).
GetTestsStep(g, data) ==
    IF data.kind = "envelope"
    THEN IF data.links # "next"
         THEN [g |-> [g EXCEPT !.tests = g.tests \o data.tests], done |-> TRUE]
         ELSE [g |-> [g EXCEPT !.tests = g.tests \o data.tests,
                               !.offset = g.offset + g.limit],
               done |-> FALSE]
    ELSE IF data.kind = "list"
    THEN [g |-> [g EXCEPT !.tests = g.tests \o data.tests], done |-> TRUE]
    ELSE [g |-> g, done |-> TRUE]

---------------------------------------------------------------------------
(* build_dataframe on one test: the inputs.                                *)

StatusIdInputs == 1..(Len(ServerStatuses) + 1)

DeviceInputs ==
    {RNone, RStr(<<>>), RStr(DESKTOP), RStr(MOBILE), RStr(BOTH),
     RStr(<<"T","a","b","l","e","t">>), RInt(1), RInt(2), RInt(3)}

TestimInputs ==
    {RNone,
     RStr(<<"N","o","t"," ","A","p","p","l","i","c","a","b","l","e">>),
     RStr(<<"\t","n","/","a","\n">>),
     RStr(<<"A","u","t","o","m","a","t","i","o","n"," ",
            "N","o","t"," ","A","p","p","l","i","c","a","b","l","e">>),
     RStr(<<"N","o","t"," ","A","p","p","l","i","c","a","b","l","e",".">>),
     RStr(<<"n","o","t"," "," ","a","p","p","l","i","c","a","b","l","e">>),
     RInt(2), RInt(3)}

CountriesInputs ==
    {RNone,
     RStr(<<"L","T",","," ","L","V">>),
     RStr(<<"L","T">>),
     RStr(<<"L","V","\n"," ","L","T"," ">>),
     RStr(<<"l","t">>),
     RStr(<<"L","T","X",","," ","L","V">>),
     RStr(<<" ",",",","," ","L"," ","T">>),
     RList(<<1, 2>>), RList(<<2>>), RList(<<3, 1>>)}

RowInputs ==
    {MkTest(1, sid,
            (FIELD_DEVICE :> dev @@ FIELD_TESTIM_DESKTOP :> dsk
             @@ FIELD_TESTIM_MOBILE :> mob @@ FIELD_COUNTRIES :> ctr)) :
        sid \in StatusIdInputs, dev \in DeviceInputs,
        dsk \in TestimInputs, mob \in TestimInputs, ctr \in CountriesInputs}

NoRet == [done |-> FALSE, val |-> <<>>]

InitRow ==
    /\ configured = TRUE
    /\ MainIdle
    /\ arg \in RowInputs
    /\ ret = NoRet

\* df = build_dataframe([t], status_map, priority_map, type_map, dropdown_maps)
CallBuildDataframe ==
    /\ ~ret.done
    /\ ret' = [done |-> TRUE,
               val |-> build_dataframe(<<arg>>, StatusMapOf(ServerStatuses),
                                       ServerDropdownMaps)]
    /\ UNCHANGED <<arg, mainvars>>

NextRow == CallBuildDataframe

SpecRow == InitRow /\ [][NextRow]_vars

---------------------------------------------------------------------------
(* Claims about build_dataframe, checked under SpecRow.                    *)

\* The claims' own reading of "trimmed and lower-cased, is a
\* not-applicable variant": s is whitespace, then a variant spelled in any
\* mix of cases, then whitespace.
SameLetter(c, d) ==
    \/ c = d
    \/ \E i \in 1..Len(UpperLetters) :
          {c, d} = {UpperLetters[i], LowerLetters[i]}

NaVariantsClaimed ==
    {<<"n","o","t"," ","a","p","p","l","i","c","a","b","l","e">>,
     <<"a","u","t","o","m","a","t","i","o","n"," ",
       "n","o","t"," ","a","p","p","l","i","c","a","b","l","e">>,
     <<"n","/","a">>}

IsNaClaimed(s) ==
    \E v \in NaVariantsClaimed :
        \E a \in 0..Len(s) :
            /\ a + Len(v) <= Len(s)
            /\ \A i \in 1..a : s[i] \in Whitespace
            /\ \A i \in 1..Len(v) : SameLetter(s[a + i], v[i])
            /\ \A i \in (a + Len(v) + 1)..Len(s) : s[i] \in Whitespace

\* The label the lookup table gives the status id of the test, "Unknown"
\* when the table has no such id.
RawLabelClaimed(sid) ==
    IF \E k \in 1..Len(ServerStatuses) : ServerStatuses[k].id = sid
    THEN ServerStatuses[CHOOSE k \in 1..Len(ServerStatuses) :
                            ServerStatuses[k].id = sid].label
    ELSE "Unknown"

RowDone == ret.done /\ Len(ret.val) = 1
TheRow == ret.val[1]

\* C1 as stated: for device "Both", Status is "Not Applicable" if and only
\* if both sub-statuses are not-applicable variants, and otherwise Status
\* is resolve_status of the raw label.
C1_AsStated ==
    (RowDone /\ TheRow.Device = BOTH) =>
        LET bothNa == IsNaClaimed(TheRow.Testim_Desktop)
                      /\ IsNaClaimed(TheRow.Testim_Mobile)
        IN /\ (TheRow.Status = "Not Applicable") <=> bothNa
           /\ ~bothNa =>
                TheRow.Status = resolve_status(RawLabelClaimed(arg.status_id))

\* C1 amended: for device "Both" (the default included), Status is
\* "Not Applicable" when both sub-statuses are not-applicable variants, and
\* in every other case it is resolve_status of the raw label, which is
\* itself "Not Applicable" for the raw label "Not Applicable"; so Status is
\* "Not Applicable" iff both sub-statuses are variants or the resolved raw
\* status is.
C1_BothDevice ==
    (RowDone /\ TheRow.Device = BOTH) =>
        LET bothNa == IsNaClaimed(TheRow.Testim_Desktop)
                      /\ IsNaClaimed(TheRow.Testim_Mobile)
            resolved == resolve_status(RawLabelClaimed(arg.status_id))
        IN /\ bothNa => TheRow.Status = "Not Applicable"
           /\ ~bothNa => TheRow.Status = resolved
           /\ (TheRow.Status = "Not Applicable")
                <=> (bothNa \/ resolved = "Not Applicable")

\* C1 witness: the device field is unset, both sub-statuses are variants,
\* the raw status is "Passed" and the row says "Not Applicable".
C1_Witness ==
    /\ RowDone
    /\ RawGet(arg.custom, FIELD_DEVICE) = RNone
    /\ TheRow.Device = BOTH
    /\ IsNaClaimed(TheRow.Testim_Desktop)
    /\ IsNaClaimed(TheRow.Testim_Mobile)
    /\ TheRow.Status_Raw = "Passed"
    /\ TheRow.Status = "Not Applicable"

\* The surface a single-device test is judged by, and the other one.
OwnSurface(row) ==
    IF row.Device = DESKTOP THEN row.Testim_Desktop ELSE row.Testim_Mobile
OtherField(row) ==
    IF row.Device = DESKTOP THEN FIELD_TESTIM_MOBILE ELSE FIELD_TESTIM_DESKTOP

\* The row of the same test with the other surface's raw sub-status
\* replaced by v.
RowWithOther(v) ==
    BuildRow([arg EXCEPT !.custom = (OtherField(TheRow) :> v) @@ arg.custom],
             StatusMapOf(ServerStatuses), ServerDropdownMaps)

\* C2 as stated: for device "Desktop" (resp. "Mobile"), Status is
\* "Not Applicable" if and only if the desktop (resp. mobile) sub-status
\* alone is a variant; the other surface's sub-status changes nothing.
C2_AsStated ==
    (RowDone /\ TheRow.Device \in {DESKTOP, MOBILE}) =>
        /\ (TheRow.Status = "Not Applicable")
             <=> IsNaClaimed(OwnSurface(TheRow))
        /\ \A v \in TestimInputs : RowWithOther(v).Status = TheRow.Status

\* C2 amended: for device "Desktop" (resp. "Mobile"), Status is
\* "Not Applicable" iff the desktop (resp. mobile) sub-status is a variant
\* or the resolved raw status is itself "Not Applicable"; otherwise it is
\* the resolved raw status; the other surface's sub-status changes nothing.
C2_SingleDevice ==
    (RowDone /\ TheRow.Device \in {DESKTOP, MOBILE}) =>
        LET ownNa == IsNaClaimed(OwnSurface(TheRow))
            resolved == resolve_status(RawLabelClaimed(arg.status_id))
        IN /\ (TheRow.Status = "Not Applicable")
                <=> (ownNa \/ resolved = "Not Applicable")
           /\ ~ownNa => TheRow.Status = resolved
           /\ \A v \in TestimInputs : RowWithOther(v).Status = TheRow.Status

\* C2 witness: a Desktop test whose desktop sub-status is a variant and
\* whose mobile one is not, raw status "Failed", shown "Not Applicable".
C2_Witness ==
    /\ RowDone
    /\ TheRow.Device = DESKTOP
    /\ IsNaClaimed(TheRow.Testim_Desktop)
    /\ ~IsNaClaimed(TheRow.Testim_Mobile)
    /\ TheRow.Status_Raw = "Failed"
    /\ TheRow.Status = "Not Applicable"

StatusGroups == {STATUS_GROUP_MAP[l] : l \in DOMAIN STATUS_GROUP_MAP}

\* C3 as stated: every row's Status is one of the groups of the
\* normalization table.
C3_AsStated ==
    ret.done => \A i \in 1..Len(ret.val) : ret.val[i].Status \in StatusGroups

\* C3 amended: every row's Status is one of the groups of the
\* normalization table or the raw label itself, the latter only when that
\* label ("Unknown" for a status id missing from the lookup table) is
\* absent from STATUS_GROUP_MAP.
C3_GroupOrRawLabel ==
    RowDone =>
        LET raw == RawLabelClaimed(arg.status_id)
        IN /\ TheRow.Status \in StatusGroups \cup {raw}
           /\ raw \in DOMAIN STATUS_GROUP_MAP => TheRow.Status \in StatusGroups

\* C3 witness: a label the table does not know reaches the Status column.
C3_Witness ==
    /\ RowDone
    /\ TheRow.Status_Raw = "In Review"
    /\ TheRow.Status = "In Review"
    /\ TheRow.Status \notin StatusGroups

\* The claim's own reading of the country tokens: the maximal pieces of
\* the value between commas, newlines and its ends, each without its
\* leading and trailing whitespace, the empty ones dropped.
CountrySeparators == {",", "\n"}

TrimClaimed(x) ==
    LET keep == {i \in 1..Len(x) : x[i] \notin Whitespace}
    IN IF keep = {} THEN <<>>
       ELSE SubSeq(x, CHOOSE i \in keep : \A j \in keep : i <= j,
                      CHOOSE i \in keep : \A j \in keep : j <= i)

TokensClaimed(s) ==
    {TrimClaimed(SubSeq(s, i, j)) :
        <<i, j>> \in {p \in (1..Len(s)) \X (1..Len(s)) :
            /\ p[1] <= p[2]
            /\ (p[1] = 1 \/ s[p[1] - 1] \in CountrySeparators)
            /\ (p[2] = Len(s) \/ s[p[2] + 1] \in CountrySeparators)
            /\ \A k \in p[1]..p[2] : s[k] \notin CountrySeparators}}
    \ {<<>>}

CountriesResolved ==
    resolve_custom_field(RawGet(arg.custom, FIELD_COUNTRIES),
                         MapsGet(ServerDropdownMaps, FIELD_COUNTRIES))

\* C9: the LT flag is true iff the token "LT" is among the trimmed
\* non-empty comma/newline-separated tokens of the resolved countries
\* value, the LV flag iff "LV" is, and Both Countries iff both flags are.
C9_CountryFlags ==
    RowDone =>
        /\ TheRow.LT <=> (<<"L","T">> \in TokensClaimed(CountriesResolved))
        /\ TheRow.LV <=> (<<"L","V">> \in TokensClaimed(CountriesResolved))
        /\ TheRow.Both_Countries <=> (TheRow.LT /\ TheRow.LV)

\* C9 witness: "LT, LV" sets all three flags.
C9_Witness ==
    /\ RowDone
    /\ CountriesResolved = <<"L","T",","," ","L","V">>
    /\ TheRow.LT /\ TheRow.LV /\ TheRow.Both_Countries

---------------------------------------------------------------------------
(* The option map of one field and resolve_custom_field on it: inputs.     *)

MaxOptLines == 2

OptionLines ==
    {<<"1","0",",","H","i","g","h">>,
     <<"2","0",",","L","o","w">>,
     <<"b","o","g","u","s">>,
     <<" ","3","0"," ",","," ","M","i","d"," ","l","e","v","e","l"," ">>,
     <<"x",",","H","i","g","h">>,
     <<"1","0",",","T","o","p",",","m","o","s","t">>}

\* the items strings of up to MaxOptLines lines
RECURSIVE ItemsOfLength(_)
ItemsOfLength(n) ==
    IF n = 0 THEN {<<>>}
    ELSE IF n = 1 THEN OptionLines
    ELSE {l \o <<"\n">> \o rest : l \in OptionLines, rest \in ItemsOfLength(n - 1)}

ItemsInputs == UNION {ItemsOfLength(n) : n \in 0..MaxOptLines}

FieldInputs ==
    {MkField("priority_area", ty, <<items>>) :
        ty \in {6, 12, 1}, items \in ItemsInputs}

RawInputs ==
    {RNone, RInt(0), RInt(10), RInt(99),
     RList(<<>>), RList(<<10, 20>>), RList(<<10, 0, 99>>),
     RStr(<<>>), RStr(<<"f","r","e","e"," ","t","e","x","t">>)}

InitFields ==
    /\ configured = TRUE
    /\ MainIdle
    /\ arg \in FieldInputs
    /\ ret = [done |-> FALSE, raised |-> FALSE, maps |-> <<>>,
              resolved |-> FALSE, raw |-> RNone, out |-> <<>>]

\* the dropdown_maps loop of fetch_plan_data on case_fields = [field]
CallBuildDropdownMaps ==
    /\ ~ret.done
    /\ LET r == BuildDropdownMaps(<<arg>>)
       IN ret' = [ret EXCEPT !.done = TRUE, !.raised = r.raised,
                             !.maps = r.maps]
    /\ UNCHANGED <<arg, mainvars>>

\* resolve_custom_field(t.get(F), dropdown_maps.get(F)) for the field F
CallResolveCustomField ==
    /\ ret.done /\ ~ret.raised /\ ~ret.resolved
    /\ \E raw \in RawInputs :
          ret' = [ret EXCEPT
                    !.resolved = TRUE, !.raw = raw,
                    !.out = resolve_custom_field(raw,
                              MapsGet(ret.maps, "custom_" \o arg.system_name))]
    /\ UNCHANGED <<arg, mainvars>>

NextFields == CallBuildDropdownMaps \/ CallResolveCustomField

SpecFields == InitFields /\ [][NextFields]_vars

---------------------------------------------------------------------------
(* Claims about the option maps and resolve_custom_field, checked under    *)
(* SpecFields.                                                             *)

FieldKey == "custom_" \o arg.system_name
FieldItems == arg.configs[1]

\* The claim's reading of an options string: its lines, and of a line the
\* id before the first comma and the label after it.
LineIdClaimed(line) == ParseInt(SubSeq(line, 1, StrFind(line, ",") - 1))
LineLabelClaimed(line) ==
    TrimClaimed(SubSeq(line, StrFind(line, ",") + 1, Len(line)))
WellFormedLine(line) == StrContains(line, ",") /\ LineIdClaimed(line).ok

\* id -> trimmed label over the well-formed lines, the last line of an id
\* deciding; every other line contributes nothing.
OptMapClaimed(items) ==
    LET ls == StrSplit(items, "\n")
        good == {i \in 1..Len(ls) : WellFormedLine(ls[i])}
    IN [id \in {LineIdClaimed(ls[i]).val : i \in good} |->
          LineLabelClaimed(ls[CHOOSE i \in good :
              /\ LineIdClaimed(ls[i]).val = id
              /\ \A j \in good : j > i => LineIdClaimed(ls[j]).val # id])]

\* C6 as stated: building the option map of a dropdown or multi-select
\* field never raises, whatever its lines hold; every well-formed
\* "id,label" line contributes id -> trimmed label and every other line is
\* skipped.
C6_AsStated ==
    ret.done =>
        /\ ~ret.raised
        /\ (arg.type_id \in {6, 12} /\ FieldItems # <<>>) =>
              /\ FieldKey \in DOMAIN ret.maps
              /\ ret.maps[FieldKey] = OptMapClaimed(FieldItems)

\* The claim's reading of resolve_custom_field.
OptLabelClaimed(map, id) ==
    IF map.some /\ id \in DOMAIN map.m THEN map.m[id] ELSE IntToStr(id)

ResolvedClaimed(raw, map) ==
    CASE raw.tag = "none" -> <<>>
      [] raw.tag = "list" ->
            StrJoin([i \in 1..Len(raw.l) |-> OptLabelClaimed(map, raw.l[i])],
                    <<",", " ">>)
      [] raw.tag = "int"  -> OptLabelClaimed(map, raw.n)
      [] raw.tag = "str"  -> raw.s

\* C7 as stated: resolve_custom_field returns "" for an absent value, the
\* ", "-joined labels for a list, the label or else the string form for a
\* single option id (every integer, 0 included, with or without a dropdown
\* map), and free text unchanged.
C7_AsStated ==
    (ret.done /\ ret.resolved) =>
        ret.out = ResolvedClaimed(ret.raw, MapsGet(ret.maps, FieldKey))

---------------------------------------------------------------------------
(* get_tests against a server that may answer each page request in any     *)
(* shape.                                                                  *)

MaxPages == 3
MaxPageLen == 2

RunIdInputs == {1, 2}

\* the numbers of tests a page may carry: small pages, a short last page
\* and a full page
PageSizes == (0..MaxPageLen) \cup {10, PageLimit}

\* the k-th test the server holds for a run
ServerItem(run_id, k) == MkTest(1000 * run_id + k, 1 + (k % 5), <<>>)

\* the n tests that follow the offset
ServerPage(run_id, offset, n) ==
    [i \in 1..n |-> ServerItem(run_id, offset + i)]

InitGetTests ==
    /\ configured = TRUE
    /\ now = 0
    /\ epoch = 0
    /\ cache = [p \in PlanIds |-> NoEntry]
    /\ pc = "get_tests"
    /\ plan_id = 0
    /\ loc = NoLoc
    /\ \E run_id \in RunIdInputs : gt = GetTestsStart(run_id)
    /\ reqlog = <<>>
    /\ resplog = <<>>
    /\ pagelog = <<>>
    /\ fetchlog = <<>>
    /\ lastFetch = [p \in PlanIds |-> NoEntry]
    /\ result = <<>>
    /\ ui = <<>>
    /\ df = <<>>
    /\ arg = <<>>
    /\ ret = NoRet

\* One pass of the while loop: the request goes out and the server answers
\* with data.
GetTestsAnswer(data) ==
    LET step == GetTestsStep(gt, data)
    IN /\ reqlog' = Append(reqlog, GetTestsRequest(gt))
       /\ resplog' = Append(resplog, "ok")
       /\ pagelog' = Append(pagelog, data)
       /\ gt' = step.g
       /\ IF step.done
          THEN /\ pc' = "returned"
               /\ ret' = [done |-> TRUE, val |-> step.g.tests]
          ELSE UNCHANGED <<pc, ret>>
       /\ UNCHANGED <<configured, now, epoch, cache, plan_id, loc, fetchlog,
                      lastFetch, result, ui, df, arg>>

\* a paginated envelope with a next link
GetTestsPageNext ==
    /\ pc = "get_tests"
    /\ Len(reqlog) + 1 < MaxPages
    /\ \E n \in PageSizes :
          GetTestsAnswer(MkData("envelope",
                                ServerPage(gt.run_id, gt.offset, n), "next"))

\* a paginated envelope without one ("next": null, or no "_links" at all)
GetTestsPageLast ==
    /\ pc = "get_tests"
    /\ \E n \in PageSizes, links \in {"null", "absent"} :
          GetTestsAnswer(MkData("envelope",
                                ServerPage(gt.run_id, gt.offset, n), links))

\* a bare list
GetTestsBareList ==
    /\ pc = "get_tests"
    /\ \E n \in PageSizes :
          GetTestsAnswer(MkData("list",
                                ServerPage(gt.run_id, gt.offset, n), "absent"))

\* JSON of another shape (a dict without "tests")
GetTestsOtherShape ==
    /\ pc = "get_tests"
    /\ GetTestsAnswer(MkData("other", <<>>, "absent"))

\* resp.raise_for_status() raises: the exception leaves get_tests
GetTestsRaises ==
    /\ pc = "get_tests"
    /\ reqlog' = Append(reqlog, GetTestsRequest(gt))
    /\ resplog' = Append(resplog, "error")
    /\ pc' = "raised"
    /\ UNCHANGED <<configured, now, epoch, cache, plan_id, loc, gt, pagelog,
                   fetchlog, lastFetch, result, ui, df, arg, ret>>

NextGetTests ==
    \/ GetTestsPageNext
    \/ GetTestsPageLast
    \/ GetTestsBareList
    \/ GetTestsOtherShape
    \/ GetTestsRaises

SpecGetTests == InitGetTests /\ [][NextGetTests]_vars

\* the tests of the pages received, in page order
RECURSIVE ConcatPages(_)
ConcatPages(pages) ==
    IF pages = <<>> THEN <<>>
    ELSE Head(pages).tests \o ConcatPages(Tail(pages))

\* The responses so far are paginated envelopes of which all but the last
\* carry a next link and the last carries none.
PagedToTheEnd ==
    /\ pagelog # <<>>
    /\ \A k \in 1..Len(pagelog) : pagelog[k].kind = "envelope"
    /\ \A k \in 1..(Len(pagelog) - 1) : pagelog[k].links = "next"
    /\ pagelog[Len(pagelog)].links # "next"

\* C4: when the first n-1 responses are envelopes with a next link and the
\* n-th is an envelope without one, get_tests has returned after exactly n
\* requests, the k-th with limit 250 and offset 250*(k-1), and its result
\* is the concatenation of the n pages in page order; a bare list as first
\* response is returned as it is after exactly 1 request.
C4_Pagination ==
    /\ PagedToTheEnd =>
          /\ pc = "returned" /\ ret.done
          /\ Len(reqlog) = Len(pagelog)
          /\ \A k \in 1..Len(reqlog) :
                reqlog[k] = MkRequest("get_tests", gt.run_id, 250, 250 * (k - 1))
          /\ ret.val = ConcatPages(pagelog)
    /\ (pagelog # <<>> /\ pagelog[1].kind = "list") =>
          /\ pc = "returned" /\ ret.done
          /\ Len(reqlog) = 1
          /\ reqlog[1] = MkRequest("get_tests", gt.run_id, 250, 0)
          /\ ret.val = pagelog[1].tests

\* C4 witness: 250 tests with a next link, then 10 without: 260 tests from
\* 2 requests.
C4_Witness ==
    /\ pc = "returned" /\ ret.done
    /\ PagedToTheEnd
    /\ Len(pagelog) = 2
    /\ Len(pagelog[1].tests) = 250
    /\ Len(pagelog[2].tests) = 10
    /\ Len(reqlog) = 2
    /\ Len(ret.val) = 260
    /\ ret.val[251] = pagelog[2].tests[1]

---------------------------------------------------------------------------
(* get_tests against a server that goes on answering with a next link.     *)

\* offset is a Python int and grows by limit with every next link, so the
\* states of an endless run are all different. The branch the loop takes
\* reads only the response (GetTestsStep tests data.kind and data.links,
\* never g.offset or g.tests), so offsets past MaxPages + 1 pages are
\* folded back by two pages: the loop goes on exactly as it would with the
\* offset itself.
FoldOffset(g) ==
    IF g.offset > (MaxPages + 1) * g.limit
    THEN [g EXCEPT !.offset = g.offset - 2 * g.limit]
    ELSE g

\* One more pass of the while loop after the pages that are logged: the
\* server answers once more with an envelope that carries a next link (and
\* an empty page, so tests stays as it is).
GetTestsPageNextOn ==
    /\ pc = "get_tests"
    /\ Len(reqlog) + 1 >= MaxPages
    /\ LET step == GetTestsStep(gt, MkData("envelope", <<>>, "next"))
       IN /\ gt' = FoldOffset(step.g)
          /\ IF step.done
             THEN /\ pc' = "returned"
                  /\ ret' = [done |-> TRUE, val |-> step.g.tests]
             ELSE UNCHANGED <<pc, ret>>
    /\ UNCHANGED <<configured, now, epoch, cache, plan_id, loc, reqlog,
                   resplog, pagelog, fetchlog, lastFetch, result, ui, df, arg>>

NextGetTestsLive ==
    \/ GetTestsPageNext
    \/ GetTestsPageLast
    \/ GetTestsBareList
    \/ GetTestsOtherShape
    \/ GetTestsRaises
    \/ GetTestsPageNextOn

\* session.get blocks until the server has answered, and every request is
\* taken to be answered: the loop takes its next pass whenever one is due.
\* Which answer the server gives is left open.
SpecGetTestsLive ==
    InitGetTests /\ [][NextGetTestsLive]_vars /\ WF_vars(NextGetTestsLive)

\* C11 as the specification states it: whatever the server answers to the
\* successive page requests, answers that keep carrying a next link
\* included, get_tests issues finitely many requests and then is left (it
\* returns, or the exception of a failed request leaves it).
C11_AsStated == <>(pc # "get_tests")

---------------------------------------------------------------------------
(* What the TestRail server holds: plans, runs and tests.                  *)

MkRun(id, name) == [id |-> id, name |-> name]

\* get_plan: plan 61979 has an entry without runs and two runs of one name
ServerPlan(p) ==
    IF p = 61979
    THEN [name |-> "Turkey backlog",
          entries |-> <<[runs |-> <<MkRun(1, "Desktop"), MkRun(2, "Mobile")>>],
                        [runs |-> <<>>],
                        [runs |-> <<MkRun(3, "Desktop")>>]>>]
    ELSE [name |-> "Drogas backlog",
          entries |-> <<[runs |-> <<MkRun(4, "Smoke")>>]>>]

\* The custom fields of the tests, by turns.
ServerCustoms ==
    <<(FIELD_DEVICE :> RInt(1) @@ FIELD_TESTIM_DESKTOP :> RInt(2)
       @@ FIELD_TESTIM_MOBILE :> RInt(3) @@ FIELD_COUNTRIES :> RList(<<1, 2>>)
       @@ FIELD_NA_REASON :>
            RStr(<<"N","o"," ","d","e","s","k","t","o","p"," ","f","l","o","w">>)),
      (FIELD_TESTIM_DESKTOP :> RStr(<<" ","N","/","A"," ">>)
       @@ FIELD_TESTIM_MOBILE :> RStr(<<"n","/","a">>)
       @@ FIELD_COUNTRIES :> RStr(<<"L","T">>)),
      (FIELD_DEVICE :> RInt(2) @@ FIELD_TESTIM_DESKTOP :> RInt(1)
       @@ FIELD_TESTIM_MOBILE :> RInt(1)
       @@ FIELD_NA_REASON :> RStr(<<"L","e","g","a","c","y">>)),
      (FIELD_DEVICE :> RInt(3) @@ FIELD_TESTIM_DESKTOP :> RInt(2)
       @@ FIELD_TESTIM_MOBILE :> RInt(3) @@ FIELD_COUNTRIES :> RList(<<2>>))>>

\* the k-th test of a run; its status moves with the server's data version
ServerTest(run_id, k, e) ==
    MkTest(1000 * run_id + k,
           1 + ((run_id + k + e) % (Len(ServerStatuses) + 1)),
           ServerCustoms[1 + ((run_id + k) % Len(ServerCustoms))])

\* How many tests each page of a run carries. A page of the model stands
\* for a page of PageLimit tests: the server serves the page the offset
\* falls into. Run 4 has no tests before the first change of the data.
ServerRunPages(run_id, e) ==
    CASE run_id = 1 -> <<2, 1>>
      [] run_id = 2 -> <<1>>
      [] run_id = 3 -> <<0>>
      [] OTHER      -> IF e = 0 THEN <<0>> ELSE <<2>>

RECURSIVE SumSeq(_)
SumSeq(q) == IF q = <<>> THEN 0 ELSE Head(q) + SumSeq(Tail(q))

\* the server's answer to get_tests/{run_id}&limit=..&offset=..
ServerAnswer(run_id, offset, limit, e) ==
    LET sizes == ServerRunPages(run_id, e)
        k == (offset \div limit) + 1
    IN IF k > Len(sizes) THEN MkData("envelope", <<>>, "null")
       ELSE LET start == SumSeq(SubSeq(sizes, 1, k - 1))
            IN MkData("envelope",
                      [i \in 1..sizes[k] |-> ServerTest(run_id, start + i, e)],
                      IF k < Len(sizes) THEN "next" ELSE "null")

\* get_case_fields of an instance one of whose option lines has no integer id
ServerCaseFieldsBad ==
    Append(ServerCaseFields,
           MkField("squad", 6,
                   <<<<"1",",","O","n","e","\n","x",",","B","r","o","k","e","n">>>>))

---------------------------------------------------------------------------
(* @st.cache_data(ttl=300) on fetch_plan_data(plan_id).                    *)

CACHE_TTL == 300

\* the key of a call: its argument
CacheSlot(p) == p

CacheFresh_inclusive(entry, t) == entry.some /\ t - entry.stored <= CACHE_TTL

\* an entry is served until ttl seconds have passed since it was stored
CacheFresh(entry, t) == entry.some /\ t - entry.stored < CACHE_TTL

---------------------------------------------------------------------------
(* main and fetch_plan_data.                                               *)

MaxClock == 600
TickStep == 100
MaxEpoch == 1

FetchStages == {"get_plan", "get_statuses", "get_priorities",
                "get_case_types", "get_case_fields", "get_tests"}

\* the request the stage the fetch stands at issues
StageRequest ==
    CASE pc = "get_plan"  -> MkRequest("get_plan", plan_id, 0, 0)
      [] pc = "get_tests" -> GetTestsRequest(gt)
      [] OTHER            -> MkRequest(pc, 0, 0, 0)

\* the locals of fetch_plan_data; e, r: the entry and the run the two for
\* loops stand at
StartLoc ==
    [plan |-> <<>>, status_map |-> <<>>, dropdown_maps |-> <<>>,
     runs_info |-> <<>>, all_tests |-> <<>>, e |-> 0, r |-> 0]

\* the first run of entry e or of a later entry, <<0, 0>> when none is left
RECURSIVE FirstPosFrom(_, _)
FirstPosFrom(entries, e) ==
    IF e > Len(entries) THEN <<0, 0>>
    ELSE IF entries[e].runs # <<>> THEN <<e, 1>>
    ELSE FirstPosFrom(entries, e + 1)

\* where the nested for loops go after run r of entry e
NextPos(entries, e, r) ==
    IF r < Len(entries[e].runs) THEN <<e, r + 1>>
    ELSE FirstPosFrom(entries, e + 1)

\* for t in tests: t["_run_name"] = run_name; t["_run_id"] = run_id
Annotate(tests, run) ==
    [i \in 1..Len(tests) |->
        [tests[i] EXCEPT !.run_name = run.name, !.run_id = run.id]]

ExtendAllTests_front(all_tests, tests) == tests \o all_tests

\* all_tests.extend(tests)
ExtendAllTests(all_tests, tests) == all_tests \o tests

\* the top of the inner loop body for the run at pos: runs_info.append(...)
EnterRun(l, pos) ==
    LET run == l.plan.entries[pos[1]].runs[pos[2]]
    IN [l EXCEPT !.e = pos[1], !.r = pos[2],
                 !.runs_info = Append(l.runs_info,
                                      [run_id |-> run.id, run_name |-> run.name])]

\* the tuple fetch_plan_data returns (priority_map and type_map are
\* fetched but feed no column of the model's rows)
ReturnValue(l) ==
    [plan |-> l.plan, runs_info |-> l.runs_info, all_tests |-> l.all_tests,
     status_map |-> l.status_map, dropdown_maps |-> l.dropdown_maps]

Dashboard == <<"header", "kpi_strip", "progress_bar", "breakdown", "charts",
               "na_reasons", "detail_tables", "legend">>

\* main after fetch_plan_data returned value: build_dataframe, then the
\* "No tests found." warning or the dashboard
Render(value) ==
    LET rows == build_dataframe(value.all_tests, value.status_map,
                                value.dropdown_maps)
    IN /\ df' = rows
       /\ ui' = IF rows = <<>> THEN <<"warning">> ELSE Dashboard

\* fetch_plan_data returns: st.cache_data stores the value, main renders it
Return(l) ==
    /\ cache' = [cache EXCEPT ![CacheSlot(plan_id)] = MkEntry(now, ReturnValue(l))]
    /\ lastFetch' = [lastFetch EXCEPT ![plan_id] = MkEntry(now, ReturnValue(l))]
    /\ result' = ReturnValue(l)
    /\ Render(ReturnValue(l))
    /\ pc' = "idle"
    /\ loc' = NoLoc
    /\ gt' = NoGt

\* an exception leaves fetch_plan_data: nothing is stored, main's except
\* branch shows st.error and returns
Abort ==
    /\ pc' = "idle"
    /\ ui' = <<"error">>
    /\ df' = <<>>
    /\ result' = <<>>
    /\ loc' = NoLoc
    /\ gt' = NoGt
    /\ UNCHANGED <<cache, lastFetch>>

\* the loops go on with the run at pos, or end when pos is <<0, 0>>
Continue(l, pos) ==
    IF pos = <<0, 0>>
    THEN Return(l)
    ELSE /\ loc' = EnterRun(l, pos)
         /\ gt' = GetTestsStart(l.plan.entries[pos[1]].runs[pos[2]].id)
         /\ pc' = "get_tests"
         /\ UNCHANGED <<cache, lastFetch, result, ui, df>>

Logged(outcome) ==
    /\ reqlog' = Append(reqlog, StageRequest)
    /\ resplog' = Append(resplog, outcome)

Init ==
    /\ configured \in BOOLEAN
    /\ MainIdle
    /\ arg = <<>>
    /\ ret = NoRet

\* main without credentials: st.error, no fetch
MainNotConfigured ==
    /\ pc = "idle" /\ ~configured
    /\ ui' = <<"error_credentials">>
    /\ UNCHANGED <<configured, now, epoch, cache, pc, plan_id, loc, gt, reqlog,
                   resplog, pagelog, fetchlog, lastFetch, result, df, arg, ret>>

\* main for business unit bu, the cached value being fresh: no call of the
\* function body
MainCacheHit(bu) ==
    /\ pc = "idle" /\ configured
    /\ CacheFresh(cache[CacheSlot(BU_PLANS[bu].plan_id)], now)
    /\ plan_id' = BU_PLANS[bu].plan_id
    /\ result' = cache[CacheSlot(BU_PLANS[bu].plan_id)].value
    /\ Render(cache[CacheSlot(BU_PLANS[bu].plan_id)].value)
    /\ reqlog' = <<>> /\ resplog' = <<>> /\ pagelog' = <<>> /\ fetchlog' = <<>>
    /\ UNCHANGED <<configured, now, epoch, cache, pc, loc, gt, lastFetch,
                   arg, ret>>

\* main for business unit bu, nothing fresh cached: fetch_plan_data runs
MainCacheMiss(bu) ==
    /\ pc = "idle" /\ configured
    /\ ~CacheFresh(cache[CacheSlot(BU_PLANS[bu].plan_id)], now)
    /\ plan_id' = BU_PLANS[bu].plan_id
    /\ pc' = "get_plan"
    /\ loc' = StartLoc
    /\ result' = <<>> /\ df' = <<>> /\ ui' = <<>>
    /\ reqlog' = <<>> /\ resplog' = <<>> /\ pagelog' = <<>> /\ fetchlog' = <<>>
    /\ UNCHANGED <<configured, now, epoch, cache, gt, lastFetch, arg, ret>>

GetPlanOk ==
    /\ pc = "get_plan"
    /\ Logged("ok")
    /\ loc' = [loc EXCEPT !.plan = ServerPlan(plan_id)]
    /\ pc' = "get_statuses"
    /\ UNCHANGED <<configured, now, epoch, cache, plan_id, gt, pagelog,
                   fetchlog, lastFetch, result, ui, df, arg, ret>>

GetStatusesOk ==
    /\ pc = "get_statuses"
    /\ Logged("ok")
    /\ loc' = [loc EXCEPT !.status_map = StatusMapOf(ServerStatuses)]
    /\ pc' = "get_priorities"
    /\ UNCHANGED <<configured, now, epoch, cache, plan_id, gt, pagelog,
                   fetchlog, lastFetch, result, ui, df, arg, ret>>

GetPrioritiesOk ==
    /\ pc = "get_priorities"
    /\ Logged("ok")
    /\ pc' = "get_case_types"
    /\ UNCHANGED <<configured, now, epoch, cache, plan_id, loc, gt, pagelog,
                   fetchlog, lastFetch, result, ui, df, arg, ret>>

GetCaseTypesOk ==
    /\ pc = "get_case_types"
    /\ Logged("ok")
    /\ pc' = "get_case_fields"
    /\ UNCHANGED <<configured, now, epoch, cache, plan_id, loc, gt, pagelog,
                   fetchlog, lastFetch, result, ui, df, arg, ret>>

\* get_case_fields answers; the option maps are built and the loops over
\* the plan's entries and runs start
GetCaseFieldsOk ==
    /\ pc = "get_case_fields"
    /\ ~BuildDropdownMaps(ServerCaseFields).raised
    /\ Logged("ok")
    /\ Continue([loc EXCEPT !.dropdown_maps =
                                BuildDropdownMaps(ServerCaseFields).maps],
                FirstPosFrom(loc.plan.entries, 1))
    /\ UNCHANGED <<configured, now, epoch, plan_id, pagelog, fetchlog,
                   arg, ret>>

\* get_case_fields answers with an option line int() cannot read
GetCaseFieldsMalformed ==
    /\ pc = "get_case_fields"
    /\ BuildDropdownMaps(ServerCaseFieldsBad).raised
    /\ Logged("ok")
    /\ Abort
    /\ UNCHANGED <<configured, now, epoch, plan_id, pagelog, fetchlog,
                   arg, ret>>

\* One pass of the while loop of get_tests inside fetch_plan_data; when the
\* loop is left, the rest of the inner for body and the next run.
GetTestsPage ==
    /\ pc = "get_tests"
    /\ Logged("ok")
    /\ LET data == ServerAnswer(gt.run_id, gt.offset, gt.limit, epoch)
           step == GetTestsStep(gt, data)
           run == loc.plan.entries[loc.e].runs[loc.r]
       IN IF ~step.done
          THEN /\ gt' = step.g
               /\ pagelog' = Append(pagelog, data)
               /\ UNCHANGED <<pc, loc, fetchlog, cache, lastFetch, result,
                              ui, df>>
          ELSE /\ pagelog' = <<>>
               /\ fetchlog' = Append(fetchlog,
                                [e |-> loc.e, r |-> loc.r, run_id |-> run.id,
                                 tests |-> step.g.tests])
               /\ Continue([loc EXCEPT !.all_tests =
                               ExtendAllTests(loc.all_tests,
                                              Annotate(step.g.tests, run))],
                           NextPos(loc.plan.entries, loc.e, loc.r))
    /\ UNCHANGED <<configured, now, epoch, plan_id, arg, ret>>

RequestFails_retry ==
    /\ pc \in FetchStages
    /\ Logged("error")
    /\ UNCHANGED <<configured, now, epoch, cache, pc, plan_id, loc, gt,
                   pagelog, fetchlog, lastFetch, result, ui, df, arg, ret>>

\* resp.raise_for_status() (or the transport) raises in _get
RequestFails ==
    /\ pc \in FetchStages
    /\ Logged("error")
    /\ Abort
    /\ UNCHANGED <<configured, now, epoch, plan_id, pagelog, fetchlog,
                   arg, ret>>

\* time passes
Tick ==
    /\ \E d \in {TickStep} :
          /\ now + d <= MaxClock
          /\ now' = now + d
    /\ UNCHANGED <<configured, epoch, cache, pc, plan_id, loc, gt, reqlog,
                   resplog, pagelog, fetchlog, lastFetch, result, ui, df,
                   arg, ret>>

\* the data on the server changes
ServerChange ==
    /\ epoch < MaxEpoch
    /\ epoch' = epoch + 1
    /\ UNCHANGED <<configured, now, cache, pc, plan_id, loc, gt, reqlog,
                   resplog, pagelog, fetchlog, lastFetch, result, ui, df,
                   arg, ret>>

Next ==
    \/ MainNotConfigured
    \/ \E bu \in DOMAIN BU_PLANS : MainCacheHit(bu)
    \/ \E bu \in DOMAIN BU_PLANS : MainCacheMiss(bu)
    \/ GetPlanOk
    \/ GetStatusesOk
    \/ GetPrioritiesOk
    \/ GetCaseTypesOk
    \/ GetCaseFieldsOk
    \/ GetCaseFieldsMalformed
    \/ GetTestsPage
    \/ RequestFails
    \/ Tick
    \/ ServerChange

Spec == Init /\ [][Next]_vars

---------------------------------------------------------------------------
(* Claims about the load, checked under Spec.                              *)

Rendered == pc = "idle" /\ ui \in {Dashboard, <<"warning">>}

\* the runs of a plan as <<entry, run>> index pairs
RunPairs(plan) ==
    UNION {{<<e, r>> : r \in 1..Len(plan.entries[e].runs)} :
              e \in 1..Len(plan.entries)}

\* log is a full refetch of plan p: the plan, the four reference tables,
\* and the tests of every run of the plan
FullFetch(log, p, plan) ==
    /\ Len(log) >= 5
    /\ log[1] = MkRequest("get_plan", p, 0, 0)
    /\ {log[k].endpoint : k \in 2..5} =
          {"get_statuses", "get_priorities", "get_case_types", "get_case_fields"}
    /\ \A pr \in RunPairs(plan) :
          \E k \in 6..Len(log) :
             /\ log[k].endpoint = "get_tests"
             /\ log[k].id = plan.entries[pr[1]].runs[pr[2]].id

\* a step in which main is called (time and the server's data stand still)
LoadStep == pc = "idle" /\ configured /\ now' = now /\ epoch' = epoch

\* a step in which fetch_plan_data returns its value to main
FetchReturns == pc # "idle" /\ pc' = "idle" /\ ui' # <<"error">>

\* C5: a call for a plan id less than 300 seconds after the last
\* successful fetch of that plan id issues no request and returns the
\* snapshot of that fetch, whatever was fetched for other plan ids since;
\* a call without such a fetch, or 300 seconds or more after it, starts a
\* refetch, and a refetch that returns has requested the plan, the four
\* reference tables and the tests of every run.
C5_CacheWindow ==
    [][ /\ LoadStep =>
            LET last == lastFetch[plan_id']
                fresh == last.some /\ now - last.stored < 300
            IN /\ fresh => /\ pc' = "idle"
                           /\ reqlog' = <<>>
                           /\ result' = last.value
               /\ ~fresh => /\ pc' = "get_plan"
                            /\ reqlog' = <<>>
                            /\ result' = <<>>
        /\ FetchReturns => FullFetch(reqlog', plan_id, result'.plan)
      ]_vars

\* C5 witness: a plan id is served from its snapshot after time has passed
\* and after the other plan id was fetched in between.
C5_Witness ==
    /\ pc = "idle" /\ ui = Dashboard /\ reqlog = <<>>
    /\ lastFetch[plan_id].some
    /\ result = lastFetch[plan_id].value
    /\ now > lastFetch[plan_id].stored
    /\ \E q \in PlanIds \ {plan_id} :
          /\ lastFetch[q].some
          /\ lastFetch[q].stored > lastFetch[plan_id].stored

\* C8: within a load only the last request can have failed, no request is
\* issued twice, and after a failed request main has returned having shown
\* the single error message and nothing else, with no row table.
C8_FailFast ==
    /\ Len(resplog) = Len(reqlog)
    /\ \A k \in 1..(Len(resplog) - 1) : resplog[k] = "ok"
    /\ \A i, j \in 1..Len(reqlog) : i < j => reqlog[i] # reqlog[j]
    /\ (resplog # <<>> /\ resplog[Len(resplog)] = "error") =>
          /\ pc = "idle"
          /\ ui = <<"error">>
          /\ df = <<>>
          /\ result = <<>>

\* C8 witness: the request for the second page of a run's tests fails.
C8_Witness ==
    /\ resplog # <<>> /\ resplog[Len(resplog)] = "error"
    /\ reqlog[Len(reqlog)].endpoint = "get_tests"
    /\ reqlog[Len(reqlog)].offset = 250
    /\ pc = "idle" /\ ui = <<"error">>

\* the number of tests the get_tests calls before the k-th one returned
RowsBefore(k) ==
    SumSeq([j \in 1..(k - 1) |-> Len(fetchlog[j].tests)])

\* the get_tests call that issued request i of the load
CallOf(i) == CHOOSE k \in 1..Len(fetchlog) : fetchlog[k].run_id = reqlog[i].id

\* C10: after a load that fetched, the row table has one row per fetched
\* test; get_tests was called once per run, plan entries in order and
\* within an entry its runs in order; the rows are the tests of these
\* calls in call order and, within a call, in the order get_tests returned
\* them, each row's Run being the name of that run; the requests for tests
\* go run by run in the same order.
C10_FetchOrder ==
    (Rendered /\ reqlog # <<>>) =>
        LET entries == result.plan.entries
        IN /\ Len(df) = RowsBefore(Len(fetchlog) + 1)
           /\ {<<fetchlog[k].e, fetchlog[k].r>> : k \in 1..Len(fetchlog)}
                 = RunPairs(result.plan)
           /\ \A i, j \in 1..Len(fetchlog) :
                 i < j => \/ fetchlog[i].e < fetchlog[j].e
                          \/ /\ fetchlog[i].e = fetchlog[j].e
                             /\ fetchlog[i].r < fetchlog[j].r
           /\ \A k \in 1..Len(fetchlog) :
                 LET run == entries[fetchlog[k].e].runs[fetchlog[k].r]
                 IN /\ fetchlog[k].run_id = run.id
                    /\ \A i \in 1..Len(fetchlog[k].tests) :
                          /\ df[RowsBefore(k) + i].Case_ID
                                = fetchlog[k].tests[i].case_id
                          /\ df[RowsBefore(k) + i].Run = run.name
           /\ \A i, j \in 6..Len(reqlog) :
                 i < j => /\ reqlog[i].endpoint = "get_tests"
                          /\ CallOf(i) <= CallOf(j)

\* C10 witness: plan 61979 was fetched: three calls, the first of two
\* pages, and the fourth row is the test of the second run.
C10_Witness ==
    /\ Rendered /\ reqlog # <<>>
    /\ Len(fetchlog) = 3
    /\ Len(fetchlog[1].tests) = 3
    /\ Len(df) = 4
    /\ df[4].Run = "Mobile"
    /\ df[1].Run = "Desktop"

---------------------------------------------------------------------------
(* main below the header: the run filter, the progress figures and the     *)
(* not-applicable reasons of a row table.                                  *)

\* dff[mask]: a frame cut out of dff is the sequence of the positions of
\* its rows in dff (which tells tests of equal columns apart); keep is the
\* set of the positions where the mask is True.
RowsWhere(dff, keep) ==
    SelectSeq([i \in 1..Len(dff) |-> i], LAMBDA i : i \in keep)

\* df[df["Run"] == selected_run].copy() if selected_run != "All Runs"
\* else df.copy()
FilterRun(table, selected_run) ==
    IF selected_run # "All Runs"
    THEN LET frame == RowsWhere(table, {i \in 1..Len(table) :
                                           table[i].Run = selected_run})
         IN [k \in 1..Len(frame) |-> table[frame[k]]]
    ELSE table

\* ["All Runs"] + sorted(df["Run"].unique().tolist()), as the set of the
\* choices the select box offers
RunNames(table) == {"All Runs"} \cup {table[i].Run : i \in 1..Len(table)}

\* int(dff["Status"].value_counts().get(s, 0))
StatusCount(dff, s) == Cardinality({i \in 1..Len(dff) : dff[i].Status = s})

done_set == {"Passed", "Passed with Issue", "Passed with Stub"}

RECURSIVE SumOver(_, _)
SumOver(f, S) ==
    IF S = {} THEN 0
    ELSE LET x == CHOOSE y \in S : TRUE
         IN f[x] + SumOver(f, S \ {x})

\* pct = done / actionable * 100 if actionable else 0, kept as the fraction
\* num / den (the float division is monotone and exact at 0 and at 1, so
\* pct lies in 0..100 exactly when 0 <= num <= 100 * den). A negative
\* actionable is truthy; the fraction is kept with a positive denominator.
render_progress_bar(done, actionable, na) ==
    IF actionable # 0
    THEN IF actionable > 0
         THEN [num |-> done * 100, den |-> actionable]
         ELSE [num |-> (0 - done) * 100, den |-> 0 - actionable]
    ELSE [num |-> 0, den |-> 1]

Progress_total(dff) ==
    LET total == Len(dff)
        done == SumOver([s \in done_set |-> StatusCount(dff, s)], done_set)
        na == StatusCount(dff, "Not Applicable")
        actionable == total
    IN [total |-> total, done |-> done, na |-> na, actionable |-> actionable,
        pct |-> render_progress_bar(done, actionable, na)]

\* the progress block of main
Progress(dff) ==
    LET total == Len(dff)
        done == SumOver([s \in done_set |-> StatusCount(dff, s)], done_set)
        na == StatusCount(dff, "Not Applicable")
        actionable == total - na
    IN [total |-> total, done |-> done, na |-> na, actionable |-> actionable,
        pct |-> render_progress_bar(done, actionable, na)]

NO_REASON ==
    <<"N","o"," ","r","e","a","s","o","n"," ","s","p","e","c","i","f","i","e","d">>

\* drop_duplicates(subset=["Case ID", "Run"]): of the rows of equal Case ID
\* and Run the first stays
DropDuplicates(dff, frame) ==
    SelectSeq([k \in 1..Len(frame) |-> k],
              LAMBDA k : \A j \in 1..(k - 1) :
                  \/ dff[frame[j]].Case_ID # dff[frame[k]].Case_ID
                  \/ dff[frame[j]].Run # dff[frame[k]].Run)

\* combined["NA Reason"].replace("", "No reason specified").value_counts()
ReasonCounts(dff, combined) ==
    LET label(i) == IF dff[i].NA_Reason = <<>> THEN NO_REASON
                    ELSE dff[i].NA_Reason
    IN [l \in {label(combined[k]) : k \in 1..Len(combined)} |->
           Cardinality({k \in 1..Len(combined) : label(combined[k]) = l})]

NothingRendered == [rendered |-> FALSE, combined |-> <<>>, reason_counts |-> <<>>]

\* render_na_reasons: whether the chart is drawn, the rows behind it (by
\* position in dff) and the count of each reason
render_na_reasons(dff) ==
    LET na_df == RowsWhere(dff, {i \in 1..Len(dff) :
                                    dff[i].Status = "Not Applicable"})
        reason_df == RowsWhere(dff, {i \in 1..Len(dff) :
                                        StrStrip(dff[i].NA_Reason) # <<>>})
        both == na_df \o reason_df
        kept == DropDuplicates(dff, both)
        combined == [k \in 1..Len(kept) |-> both[kept[k]]]
    IN IF na_df = <<>> THEN NothingRendered
       ELSE IF reason_df = <<>> /\ na_df = <<>> THEN NothingRendered
       ELSE [rendered |-> TRUE, combined |-> combined,
             reason_counts |-> ReasonCounts(dff, combined)]

---------------------------------------------------------------------------
(* main on a row table: the tables and the run chosen in the side bar.     *)

MaxRows == 3

\* case and run of a test: two cases of one run and a case of another
TableSlots ==
    {[case_id |-> 1, run |-> MkRun(1, "Desktop")],
     [case_id |-> 2, run |-> MkRun(1, "Desktop")],
     [case_id |-> 1, run |-> MkRun(2, "Mobile")]}

\* status id and custom fields of a test: passed, passed with issue and
\* failed tests with and without a reason, not-applicable tests with and
\* without one, and a passed test that both Testim fields make not
\* applicable, its reason blank
TableKinds ==
    {[status_id |-> 1, custom |-> <<>>],
     [status_id |-> 8,
      custom |-> (FIELD_NA_REASON :> RStr(<<"L","e","g","a","c","y">>))],
     [status_id |-> 5,
      custom |-> (FIELD_NA_REASON :> RStr(<<"L","e","g","a","c","y">>))],
     [status_id |-> 7, custom |-> <<>>],
     [status_id |-> 7,
      custom |-> (FIELD_NA_REASON :> RStr(<<"M","a","n","u","a","l">>))],
     [status_id |-> 1,
      custom |-> (FIELD_TESTIM_DESKTOP :> RStr(<<"n","/","a">>)
                  @@ FIELD_TESTIM_MOBILE :> RStr(<<"N","/","A">>)
                  @@ FIELD_NA_REASON :> RStr(<<" ">>))]}

\* the tests of all_tests: as get_tests delivers them, with the run that
\* fetch_plan_data writes into them
TableTests ==
    {Annotate(<<MkTest(s.case_id, k.status_id, k.custom)>>, s.run)[1] :
        s \in TableSlots, k \in TableKinds}

TableInputs == UNION {[1..n -> TableTests] : n \in 1..MaxRows}

InitTable ==
    /\ configured = TRUE
    /\ now = 0
    /\ epoch = 0
    /\ cache = [p \in PlanIds |-> NoEntry]
    /\ pc = "dashboard"
    /\ plan_id = 0
    /\ loc = NoLoc
    /\ gt = NoGt
    /\ reqlog = <<>>
    /\ resplog = <<>>
    /\ pagelog = <<>>
    /\ fetchlog = <<>>
    /\ lastFetch = [p \in PlanIds |-> NoEntry]
    /\ result = <<>>
    /\ ui = <<>>
    /\ \E all_tests \in TableInputs :
          df = build_dataframe(all_tests, StatusMapOf(ServerStatuses),
                               ServerDropdownMaps)
    /\ arg = ""
    /\ ret = NoRet

\* main from the run filter on, for the run chosen in the select box: dff,
\* the progress figures handed to render_progress_bar and
\* render_na_reasons(dff)
MainDashboard ==
    /\ pc = "dashboard"
    /\ df # <<>>
    /\ \E selected_run \in RunNames(df) :
          LET dff == FilterRun(df, selected_run)
          IN /\ arg' = selected_run
             /\ ret' = [done |-> TRUE,
                        val |-> [dff |-> dff,
                                 progress |-> Progress(dff),
                                 na_reasons |-> render_na_reasons(dff)]]
    /\ pc' = "idle"
    /\ ui' = Dashboard
    /\ UNCHANGED <<configured, now, epoch, cache, plan_id, loc, gt, reqlog,
                   resplog, pagelog, fetchlog, lastFetch, result, df>>

NextTable == MainDashboard

SpecTable == InitTable /\ [][NextTable]_vars

---------------------------------------------------------------------------
(* Claims about the dashboard figures, checked under SpecTable.            *)

\* the main run has drawn the dashboard of the chosen run
TableDone == pc = "idle" /\ ret.done

\* The claim's "NA Reason is non-empty", read as the code's comment reads
\* it ("populated"): the reason holds a character that is not white space.
ReasonGiven(row) ==
    \E k \in 1..Len(row.NA_Reason) : row.NA_Reason[k] \notin Whitespace

\* the tests the claim puts into the breakdown, by position in dff
NaClaimed(dff) ==
    {i \in 1..Len(dff) : dff[i].Status = "Not Applicable" \/ ReasonGiven(dff[i])}

\* the tests behind the chart, and how many the chart counts in all
NaCounted(nr) == {nr.combined[k] : k \in 1..Len(nr.combined)}
NaCountedTotal(nr) == SumOver(nr.reason_counts, DOMAIN nr.reason_counts)

\* C12 as the specification states it: the tests counted in the
\* not-applicable-reason breakdown are the tests whose Status is "Not
\* Applicable" together with the tests whose NA Reason is non-empty, each
\* counted once, also when no test of the table has Status "Not
\* Applicable".
C12_AsStated ==
    TableDone =>
        /\ NaCounted(ret.val.na_reasons) = NaClaimed(ret.val.dff)
        /\ NaCountedTotal(ret.val.na_reasons) =
               Cardinality(NaClaimed(ret.val.dff))

\* C13: for every row table and every run chosen, done is the number of
\* rows whose Status is Passed, Passed with Issue or Passed with Stub, na
\* the number whose Status is Not Applicable, actionable is total - na and
\* 0 <= done <= actionable; the percentage handed to the progress bar lies
\* in 0..100 and is 0 when actionable is 0.
C13_ProgressBounds ==
    TableDone =>
        LET dff == ret.val.dff
            p == ret.val.progress
        IN /\ p.total = Len(dff)
           /\ p.done = Cardinality({i \in 1..Len(dff) :
                  dff[i].Status \in {"Passed", "Passed with Issue",
                                     "Passed with Stub"}})
           /\ p.na = Cardinality({i \in 1..Len(dff) :
                  dff[i].Status = "Not Applicable"})
           /\ p.actionable = p.total - p.na
           /\ 0 <= p.done
           /\ p.done <= p.actionable
           /\ p.pct.den > 0
           /\ 0 <= p.pct.num
           /\ p.pct.num <= 100 * p.pct.den
           /\ (p.actionable = 0 => p.pct.num = 0)
           /\ (p.actionable > 0 =>
                  p.pct.num * p.actionable = 100 * p.done * p.pct.den)

\* C13 witness: one run of a table of two runs is chosen; of its rows one
\* is done and one is not applicable, so the bar shows 1 of 1.
C13_Witness ==
    /\ TableDone
    /\ arg = "Desktop"
    /\ Len(ret.val.dff) < Len(df)
    /\ ret.val.progress.na = 1
    /\ ret.val.progress.done = 1
    /\ ret.val.progress.actionable = 1
    /\ ret.val.progress.pct = [num |-> 100, den |-> 1]

=============================================================================
